---- MODULE Spec2Model ----
(***************************************************************************)
(* CareerFit: the skill matcher (ats_logic.match_skills), the course       *)
(* recommendation fetcher (ats_logic.fetch_courses_for_skills) and the     *)
(* request handler that chains them (app.analyze).                         *)
(*                                                                         *)
(* A Python str is modelled as a sequence of code points (naturals), so    *)
(* that lower-casing, whitespace stripping, whitespace collapsing and the  *)
(* code-point ordering used by sorted() are computed, not assumed.         *)
(***************************************************************************)
EXTENDS Integers, Sequences, FiniteSets, TLC

VARIABLES
    norm_in,        \* argument s of normalize_skill
    norm_out,       \* normalize_skill(s)
    norm_again,     \* normalize_skill(normalize_skill(s))
    npc,            \* position of the normalize harness
    resume_skills,  \* argument resume_skills of match_skills
    jd_skills,      \* argument jd_skills of match_skills
    match_result,   \* the dict returned by the last match_skills call
    mpc,            \* position of the match harness
    pc,             \* per request: the statement of analyze it is about to run
    filename,       \* per request: secure_filename(file.filename)
    unique_id,      \* per request: secrets.token_hex(4)
    resume_data,    \* per request: what parse_resume returned
    jd_data,        \* per request: what parse_jd returned
    match_results,  \* per request: what match_skills returned
    skills,         \* per request: argument of fetch_courses_for_skills
    fi,             \* per request: index of the skill the fetch loop is at
    skill_recs,     \* per request: skill_recs of the current loop iteration
    recommendations,\* per request: the mapping built by the fetch loop
    response,       \* per request: HTTP status returned, "none" while running
    uploads,        \* upload folder: path -> request whose bytes it holds
    reports,        \* report folder: path -> request whose report it holds
    stages,         \* per request: stages entered so far, in order
    failed,         \* per request: the stage whose exception reached the handler
    outbound,       \* per request: provider calls issued for the skill in progress
    degraded        \* per request: skills whose every provider call has failed

normVars == <<norm_in, norm_out, norm_again, npc>>
matchVars == <<resume_skills, jd_skills, match_result, mpc>>
fetchVars == <<skills, fi, skill_recs, recommendations, outbound, degraded>>
reqVars == <<pc, filename, unique_id, resume_data, jd_data, match_results,
             response, uploads, reports, stages, failed>>
vars == <<normVars, matchVars, fetchVars, reqVars>>

(***************************************************************************)
(* Bounds                                                                  *)
(***************************************************************************)
MaxLen == 4         \* longest raw string fed to normalize_skill
MaxResume == 2      \* longest resume skill list fed to match_skills
MaxJd == 3          \* longest required skill list fed to match_skills
MaxSkills == 4      \* longest skill list fed to fetch_courses_for_skills
MaxTags == 3        \* most result anchors a provider page holds

\* code points used to build raw strings: TAB, SPACE, 'A', 'a'
Alphabet == {9, 32, 65, 97}

RECURSIVE StringsUpTo(_)
StringsUpTo(n) ==
    IF n = 0 THEN {<<>>}
    ELSE LET shorter == StringsUpTo(n - 1)
         IN  shorter \cup {Append(t, c) : t \in shorter, c \in Alphabet}

(***************************************************************************)
(* str primitives used by normalize_skill                                  *)
(***************************************************************************)
\* str.isspace() / regex \s restricted to ASCII: \t \n \v \f \r, FS GS RS US, space
isspace(c) == c \in {9, 10, 11, 12, 13, 28, 29, 30, 31, 32}

RECURSIVE lstrip(_)
lstrip(s) ==
    IF s = <<>> THEN <<>>
    ELSE IF isspace(Head(s)) THEN lstrip(Tail(s)) ELSE s

RECURSIVE rstrip(_)
rstrip(s) ==
    IF s = <<>> THEN <<>>
    ELSE IF isspace(s[Len(s)]) THEN rstrip(SubSeq(s, 1, Len(s) - 1)) ELSE s

\* s.strip()
strip(s) == rstrip(lstrip(s))

\* s.lower() on ASCII: 'A'..'Z' map to 'a'..'z', everything else is kept
lower(s) == [i \in 1..Len(s) |-> IF s[i] \in 65..90 THEN s[i] + 32 ELSE s[i]]

\* re.sub(r'\s+', ' ', s): every maximal run of whitespace becomes one SPACE
RECURSIVE sub_whitespace(_)
sub_whitespace(s) ==
    IF s = <<>> THEN <<>>
    ELSE IF isspace(Head(s))
         THEN <<32>> \o sub_whitespace(lstrip(s))
         ELSE <<Head(s)>> \o sub_whitespace(Tail(s))

\* mutant: the strip() call is dropped
normalize_skill_nostrip(s) == sub_whitespace(lower(s))

normalize_skill(s) == sub_whitespace(lower(strip(s)))

(***************************************************************************)
(* match_skills                                                            *)
(***************************************************************************)
\* raw skill strings the extraction service may hand to the matcher
AWS         == <<65, 87, 83>>                   \* "AWS"
aws_padded  == <<32, 32, 97, 119, 115, 32, 32>> \* "  aws  "
Go          == <<71, 111>>                      \* "Go"
SQL         == <<83, 81, 76>>                   \* "SQL"
Null        == <<78, 117, 108, 108>>            \* "Null"
null_padded == <<32, 110, 85, 108, 76, 9>>      \* " nUlL\t"
Python      == <<80, 121, 116, 104, 111, 110>>  \* "Python"
null        == <<110, 117, 108, 108>>           \* 'null', the literal discarded by match_skills

SkillPool == {AWS, aws_padded, Go, SQL, Null, null_padded}

RECURSIVE SeqsUpTo(_, _)
SeqsUpTo(S, n) ==
    IF n = 0 THEN {<<>>}
    ELSE LET shorter == SeqsUpTo(S, n - 1)
         IN  shorter \cup {Append(t, x) : t \in shorter, x \in S}

SwapAdjacent(q, i) ==
    [k \in 1..Len(q) |-> IF k = i THEN q[i + 1] ELSE IF k = i + 1 THEN q[i] ELSE q[k]]

\* Python's str "<": lexicographic by code point, a proper prefix is smaller
RECURSIVE str_lt(_, _)
str_lt(a, b) ==
    IF b = <<>> THEN FALSE
    ELSE IF a = <<>> THEN TRUE
    ELSE IF Head(a) < Head(b) THEN TRUE
    ELSE IF Head(a) > Head(b) THEN FALSE
    ELSE str_lt(Tail(a), Tail(b))

\* mutant: the lists are returned in requirement order
sorted_skipped(q) == q

\* insertion of x after every element that is not greater (stable)
RECURSIVE insort(_, _)
insort(q, x) ==
    IF q = <<>> THEN <<x>>
    ELSE IF str_lt(x, Head(q)) THEN <<x>> \o q
    ELSE <<Head(q)>> \o insort(Tail(q), x)

\* sorted(list of str)
RECURSIVE sorted(_)
sorted(q) ==
    IF q = <<>> THEN <<>>
    ELSE insort(sorted(SubSeq(q, 1, Len(q) - 1)), q[Len(q)])

\* mutant: the percentage is truncated instead of rounded
round_tenths_trunc(num, den) == (1000 * num) \div den

\* round((num / den) * 100, 1) in tenths of a percent: round half to even
round_tenths(num, den) ==
    LET q == (1000 * num) \div den
        r == (1000 * num) % den
    IN  IF 2 * r < den THEN q
        ELSE IF 2 * r > den THEN q + 1
        ELSE IF q % 2 = 0 THEN q ELSE q + 1

\* mutant: the strings are compared as written, without normalize_skill
norm_set_raw(raw) == {raw[i] : i \in 1..Len(raw)}

\* {normalize_skill(s) for s in skills}
norm_set(raw) == {normalize_skill(raw[i]) : i \in 1..Len(raw)}

\* mutant: the 'null' entries are not discarded
match_skills_keepnull(resume, jd) ==
    LET res_norm == norm_set(resume)
        jd_norm  == norm_set(jd)
        matched_norm == jd_norm \cap res_norm
        missing_norm == jd_norm \ res_norm
        matched_original == SelectSeq(jd, LAMBDA skill : normalize_skill(skill) \in matched_norm)
        missing_original == SelectSeq(jd, LAMBDA skill : normalize_skill(skill) \in missing_norm)
        total == Cardinality(jd_norm)
        match_count == Cardinality(matched_norm)
        percent == IF total > 0 THEN round_tenths(match_count, total) ELSE 0
    IN  [score_percentage   |-> percent,
         matched_skills     |-> sorted(matched_original),
         missing_skills     |-> sorted(missing_original),
         total_skills_count |-> total,
         matched_count      |-> match_count]

\* score_percentage is kept in tenths of a percent (667 stands for 66.7)
match_skills(resume, jd) ==
    LET res_norm == norm_set(resume) \ {null}
        jd_norm  == norm_set(jd) \ {null}
        matched_norm == jd_norm \cap res_norm
        missing_norm == jd_norm \ res_norm
        matched_original == SelectSeq(jd, LAMBDA skill : normalize_skill(skill) \in matched_norm)
        missing_original == SelectSeq(jd, LAMBDA skill : normalize_skill(skill) \in missing_norm)
        total == Cardinality(jd_norm)
        match_count == Cardinality(matched_norm)
        percent == IF total > 0 THEN round_tenths(match_count, total) ELSE 0
    IN  [score_percentage   |-> percent,
         matched_skills     |-> sorted(matched_original),
         missing_skills     |-> sorted(missing_original),
         total_skills_count |-> total,
         matched_count      |-> match_count]

\* no match_skills call has returned yet
NoResult ==
    [score_percentage |-> 0, matched_skills |-> <<>>, missing_skills |-> <<>>,
     total_skills_count |-> 0, matched_count |-> 0]

(***************************************************************************)
(* fetch_courses_for_skills: provider pages and what the loop keeps        *)
(***************************************************************************)
SkillCap == 3           \* skills[:3]
DdgCap == 2             \* soup.select("a.result__a")[:2]
CourseraCap == 1        \* soup.select(...)[:1]
BackupBelow == 2        \* if len(skill_recs) < 2

\* href of a DuckDuckGo result anchor:
\*   "http"      an absolute http(s) link
\*   "uddg_http" a redirect link whose uddg= parameter is an http(s) link
\*   "relative"  anything that does not start with "http" once unwrapped
LinkKinds == {"http", "uddg_http", "relative"}

\* what _safe_request and the parser give for one provider call
Failures == {"no_response", "non_200", "parse_error"}

DdgOutcomes ==
    {[status |-> st, tags |-> <<>>] : st \in Failures}
    \cup {[status |-> "ok", tags |-> t] : t \in SeqsUpTo(LinkKinds, MaxTags)}

CourseraOutcomes ==
    {[status |-> st, tags |-> <<>>] : st \in Failures}
    \cup {[status |-> "ok", tags |-> t] : t \in SeqsUpTo({"card"}, MaxTags)}

Min(a, b) == IF a < b THEN a ELSE b

\* q[:n]
Take(q, n) == SubSeq(q, 1, Min(n, Len(q)))

\* the link kept for a result anchor after the uddg= unwrapping
unwrap(kind) == IF kind = "uddg_http" THEN "http" ELSE kind

\* the entries the DuckDuckGo block appends to skill_recs
RECURSIVE ddg_entries(_, _)
ddg_entries(tags, first) ==
    IF tags = <<>> THEN <<>>
    ELSE (IF unwrap(Head(tags)) = "http"
          THEN <<[source |-> "duckduckgo", tag |-> first]>>
          ELSE <<>>) \o ddg_entries(Tail(tags), first + 1)

DuckDuckGoScrape(out) ==
    IF out.status = "ok" THEN ddg_entries(Take(out.tags, DdgCap), 1) ELSE <<>>

\* mutant: the [:1] slice on the Coursera cards is dropped
CourseraScrape_uncapped(out) ==
    IF out.status = "ok"
    THEN [k \in 1..Len(out.tags) |-> [source |-> "coursera", tag |-> k]]
    ELSE <<>>

\* the entries the Coursera block appends to skill_recs
CourseraScrape(out) ==
    IF out.status = "ok"
    THEN [k \in 1..Len(Take(out.tags, CourseraCap)) |-> [source |-> "coursera", tag |-> k]]
    ELSE <<>>

\* mutant: the backup provider is also asked when two results are in
needs_backup_always(recs) == Len(recs) <= BackupBelow

\* if len(skill_recs) < 2
needs_backup(recs) == Len(recs) < BackupBelow

\* mutant: the cap on the number of skills is dropped
skills_to_search_nocap(sk) == sk

\* skills[:3]
skills_to_search(sk) == Take(sk, SkillCap)

\* recommendations[skill] = skill_recs
Assign(map, key, val) ==
    [k \in DOMAIN map \cup {key} |-> IF k = key THEN val ELSE map[k]]

(***************************************************************************)
(* State of the server and of the two harnesses before anything runs       *)
(***************************************************************************)
Requests == {"r1", "r2"}

\* file names a client may upload ("" is an empty file part)
RawNames == {"cv.pdf", "../cv.pdf", "notes.txt"}

\* werkzeug.utils.secure_filename on RawNames
secure_filename(raw) ==
    CASE raw = "cv.pdf"    -> "cv.pdf"
      [] raw = "../cv.pdf" -> "cv.pdf"
      [] raw = "notes.txt" -> "notes.txt"

\* _get_file_format accepts .pdf, .doc and .docx only
SupportedFormat(name) == name \in {"cv.pdf"}

\* values secrets.token_hex(4) may return
Tokens == {"a1b2c3d4", "00ff00ff"}

\* skills lists the extraction service answers with
ResumeProfiles == {<<>>, <<aws_padded>>}
JdProfiles == {<<Null>>, <<AWS, Go>>}

NoData == [parsed |-> FALSE, skills |-> <<>>]

\* os.path.join(UPLOAD_FOLDER, f"{unique_id}_{filename}")
SavePath(r) == <<"uploads", unique_id[r], filename[r]>>

\* os.path.join(REPORT_FOLDER, f"ATS_Report_{unique_id}.pdf")
ReportPath(r) == <<"reports", unique_id[r]>>

ServerStarted ==
    /\ pc = [r \in Requests |-> "idle"]
    /\ filename = [r \in Requests |-> ""]
    /\ unique_id = [r \in Requests |-> ""]
    /\ resume_data = [r \in Requests |-> NoData]
    /\ jd_data = [r \in Requests |-> NoData]
    /\ match_results = [r \in Requests |-> NoResult]
    /\ skills = [r \in Requests |-> <<>>]
    /\ fi = [r \in Requests |-> 0]
    /\ skill_recs = [r \in Requests |-> <<>>]
    /\ recommendations = [r \in Requests |-> <<>>]
    /\ response = [r \in Requests |-> "none"]
    /\ uploads = <<>>
    /\ reports = <<>>
    /\ stages = [r \in Requests |-> <<>>]
    /\ failed = [r \in Requests |-> "none"]
    /\ outbound = [r \in Requests |-> <<>>]
    /\ degraded = [r \in Requests |-> {}]

(***************************************************************************)
(* Harness for normalize_skill                                             *)
(***************************************************************************)
NormIdle ==
    /\ norm_in = <<>>
    /\ norm_out = <<>>
    /\ norm_again = <<>>
    /\ npc = "idle"

MatchIdle ==
    /\ resume_skills = <<>>
    /\ jd_skills = <<>>
    /\ match_result = NoResult
    /\ mpc = "idle"

InitNorm ==
    /\ norm_in \in StringsUpTo(MaxLen)
    /\ norm_out = <<>>
    /\ norm_again = <<>>
    /\ npc = "call"
    /\ MatchIdle
    /\ ServerStarted

Normalize ==
    /\ npc = "call"
    /\ norm_out' = normalize_skill(norm_in)
    /\ npc' = "once"
    /\ UNCHANGED <<norm_in, norm_again, matchVars, fetchVars, reqVars>>

NormalizeAgain ==
    /\ npc = "once"
    /\ norm_again' = normalize_skill(norm_out)
    /\ npc' = "twice"
    /\ UNCHANGED <<norm_in, norm_out, matchVars, fetchVars, reqVars>>

NextNorm == Normalize \/ NormalizeAgain

SpecNorm == InitNorm /\ [][NextNorm]_vars

(***************************************************************************)
(* Harness for match_skills                                                *)
(***************************************************************************)
InitMatch ==
    /\ NormIdle
    /\ ServerStarted
    /\ resume_skills \in SeqsUpTo(SkillPool, MaxResume)
    /\ jd_skills \in SeqsUpTo(SkillPool, MaxJd)
    /\ match_result = NoResult
    /\ mpc = "call"

\* match_skills(resume_skills, jd_skills)
Match ==
    /\ mpc = "call"
    /\ match_result' = match_skills(resume_skills, jd_skills)
    /\ mpc' = "done"
    /\ UNCHANGED <<resume_skills, jd_skills, normVars, fetchVars, reqVars>>

\* the caller passes the same resume skills in another order
MatchResumeReordered ==
    /\ mpc = "done"
    /\ \E i \in 1..(Len(resume_skills) - 1) :
          resume_skills' = SwapAdjacent(resume_skills, i)
    /\ match_result' = match_skills(resume_skills', jd_skills)
    /\ UNCHANGED <<jd_skills, mpc, normVars, fetchVars, reqVars>>

\* the caller passes the same required skills in another order
MatchJdReordered ==
    /\ mpc = "done"
    /\ \E i \in 1..(Len(jd_skills) - 1) :
          jd_skills' = SwapAdjacent(jd_skills, i)
    /\ match_result' = match_skills(resume_skills, jd_skills')
    /\ UNCHANGED <<resume_skills, mpc, normVars, fetchVars, reqVars>>

NextMatch == Match \/ MatchResumeReordered \/ MatchJdReordered

SpecMatch == InitMatch /\ [][NextMatch]_vars

(***************************************************************************)
(* app.analyze: one handler invocation per request                         *)
(***************************************************************************)
Init == NormIdle /\ MatchIdle /\ ServerStarted

\* except Exception: return jsonify({'error': str(e)}), 500
Raise(r, stage) ==
    /\ pc' = [pc EXCEPT ![r] = "responded"]
    /\ response' = [response EXCEPT ![r] = "500"]
    /\ failed' = [failed EXCEPT ![r] = stage]
    /\ stages' = [stages EXCEPT ![r] = Append(@, stage)]

\* 1. Validation
Validate(r) ==
    /\ pc[r] = "idle"
    /\ \E has_file \in BOOLEAN, raw \in RawNames \cup {""}, jd_text \in {"", "jd"} :
          IF ~has_file \/ raw = "" \/ jd_text = ""
          THEN /\ pc' = [pc EXCEPT ![r] = "responded"]
               /\ response' = [response EXCEPT ![r] = "400"]
               /\ UNCHANGED filename
          ELSE /\ pc' = [pc EXCEPT ![r] = "save"]
               /\ filename' = [filename EXCEPT ![r] = secure_filename(raw)]
               /\ UNCHANGED response
    /\ stages' = [stages EXCEPT ![r] = Append(@, "validate")]
    /\ UNCHANGED <<unique_id, resume_data, jd_data, match_results, uploads, reports, failed>>
    /\ UNCHANGED <<normVars, matchVars, fetchVars>>

\* 2. Save File
SaveFile(r) ==
    /\ pc[r] = "save"
    /\ \E id \in Tokens, saved \in BOOLEAN :
          /\ unique_id' = [unique_id EXCEPT ![r] = id]
          /\ IF saved
             THEN /\ uploads' = Assign(uploads, <<"uploads", id, filename[r]>>, r)
                  /\ pc' = [pc EXCEPT ![r] = "parse_resume"]
                  /\ stages' = [stages EXCEPT ![r] = Append(@, "save")]
                  /\ UNCHANGED <<response, failed>>
             ELSE /\ Raise(r, "save")
                  /\ UNCHANGED uploads
    /\ UNCHANGED <<filename, resume_data, jd_data, match_results, reports>>
    /\ UNCHANGED <<normVars, matchVars, fetchVars>>

\* 3. Processing: resume_data = parse_resume(save_path)
ParseResume(r) ==
    /\ pc[r] = "parse_resume"
    /\ \/ /\ SupportedFormat(filename[r])
          /\ SavePath(r) \in DOMAIN uploads
          /\ \E sk \in ResumeProfiles :
                resume_data' = [resume_data EXCEPT ![r] = [parsed |-> TRUE, skills |-> sk]]
          /\ pc' = [pc EXCEPT ![r] = "parse_jd"]
          /\ stages' = [stages EXCEPT ![r] = Append(@, "parse_resume")]
          /\ UNCHANGED <<response, failed>>
       \/ /\ Raise(r, "parse_resume")
          /\ UNCHANGED resume_data
    /\ UNCHANGED <<filename, unique_id, jd_data, match_results, uploads, reports>>
    /\ UNCHANGED <<normVars, matchVars, fetchVars>>

\* 3. Processing: jd_data = parse_jd(jd_text)
ParseJd(r) ==
    /\ pc[r] = "parse_jd"
    /\ \/ /\ \E sk \in JdProfiles :
                jd_data' = [jd_data EXCEPT ![r] = [parsed |-> TRUE, skills |-> sk]]
          /\ pc' = [pc EXCEPT ![r] = "match"]
          /\ stages' = [stages EXCEPT ![r] = Append(@, "parse_jd")]
          /\ UNCHANGED <<response, failed>>
       \/ /\ Raise(r, "parse_jd")
          /\ UNCHANGED jd_data
    /\ UNCHANGED <<filename, unique_id, resume_data, match_results, uploads, reports>>
    /\ UNCHANGED <<normVars, matchVars, fetchVars>>

\* 4. Matching
MatchSkills(r) ==
    /\ pc[r] = "match"
    /\ match_results' = [match_results EXCEPT
                           ![r] = match_skills(resume_data[r].skills, jd_data[r].skills)]
    /\ pc' = [pc EXCEPT ![r] = "recommend"]
    /\ stages' = [stages EXCEPT ![r] = Append(@, "match_skills")]
    /\ UNCHANGED <<filename, unique_id, resume_data, jd_data, response, uploads, reports, failed>>
    /\ UNCHANGED <<normVars, matchVars, fetchVars>>

\* mutant: the fetch is called whether or not a skill is missing
Recommend_unconditional(r) ==
    /\ pc[r] = "recommend"
    /\ recommendations' = [recommendations EXCEPT ![r] = <<>>]
    /\ skills' = [skills EXCEPT ![r] = match_results[r].missing_skills]
    /\ fi' = [fi EXCEPT ![r] = 1]
    /\ pc' = [pc EXCEPT ![r] = "duckduckgo"]
    /\ stages' = [stages EXCEPT ![r] = Append(@, "fetch")]
    /\ UNCHANGED <<skill_recs, outbound, degraded>>
    /\ UNCHANGED <<filename, unique_id, resume_data, jd_data, match_results,
                   response, uploads, reports, failed>>
    /\ UNCHANGED <<normVars, matchVars>>

\* 5. Course Recommendations: recommendations = {}, then the call if anything is missing
Recommend(r) ==
    /\ pc[r] = "recommend"
    /\ recommendations' = [recommendations EXCEPT ![r] = <<>>]
    /\ IF match_results[r].missing_skills # <<>>
       THEN /\ skills' = [skills EXCEPT ![r] = match_results[r].missing_skills]
            /\ fi' = [fi EXCEPT ![r] = 1]
            /\ pc' = [pc EXCEPT ![r] = "duckduckgo"]
            /\ stages' = [stages EXCEPT ![r] = Append(@, "fetch")]
       ELSE /\ pc' = [pc EXCEPT ![r] = "report"]
            /\ UNCHANGED <<skills, fi, stages>>
    /\ UNCHANGED <<skill_recs, outbound, degraded>>
    /\ UNCHANGED <<filename, unique_id, resume_data, jd_data, match_results,
                   response, uploads, reports, failed>>
    /\ UNCHANGED <<normVars, matchVars>>

\* the rest of analyze does not change while the fetch loop runs
FetchFrame ==
    /\ UNCHANGED <<filename, unique_id, resume_data, jd_data, match_results,
                   response, uploads, reports, stages, failed>>
    /\ UNCHANGED <<normVars, matchVars>>

\* loop head, then "1. DuckDuckGo Scrape" for skills_to_search[fi]
DuckDuckGo(r) ==
    /\ pc[r] = "duckduckgo"
    /\ fi[r] <= Len(skills_to_search(skills[r]))
    /\ \E out \in DdgOutcomes :
          LET recs == DuckDuckGoScrape(out)
          IN  /\ skill_recs' = [skill_recs EXCEPT ![r] = recs]
              /\ outbound' = [outbound EXCEPT ![r] =
                    <<[provider |-> "duckduckgo", status |-> out.status,
                       kept |-> Len(recs)]>>]
              /\ pc' = [pc EXCEPT ![r] =
                    IF needs_backup(recs) THEN "coursera" ELSE "store"]
    /\ UNCHANGED <<skills, fi, recommendations, degraded>>
    /\ FetchFrame

\* mutant: a failed backup call is not caught and reaches the handler
Coursera_uncaught(r) ==
    /\ pc[r] = "coursera"
    /\ \E out \in CourseraOutcomes :
          LET recs == CourseraScrape(out)
          IN  IF out.status \in Failures
              THEN /\ Raise(r, "fetch")
                   /\ UNCHANGED <<skill_recs, outbound>>
              ELSE /\ skill_recs' = [skill_recs EXCEPT ![r] = @ \o recs]
                   /\ outbound' = [outbound EXCEPT ![r] =
                         Append(@, [provider |-> "coursera", status |-> out.status,
                                    kept |-> Len(recs)])]
                   /\ pc' = [pc EXCEPT ![r] = "store"]
                   /\ UNCHANGED <<response, stages, failed>>
    /\ UNCHANGED <<skills, fi, recommendations, degraded>>
    /\ UNCHANGED <<filename, unique_id, resume_data, jd_data, match_results, uploads, reports>>
    /\ UNCHANGED <<normVars, matchVars>>

\* "2. Coursera Scrape (Backup)"
Coursera(r) ==
    /\ pc[r] = "coursera"
    /\ \E out \in CourseraOutcomes :
          LET recs == CourseraScrape(out)
          IN  /\ skill_recs' = [skill_recs EXCEPT ![r] = @ \o recs]
              /\ outbound' = [outbound EXCEPT ![r] =
                    Append(@, [provider |-> "coursera", status |-> out.status,
                               kept |-> Len(recs)])]
    /\ pc' = [pc EXCEPT ![r] = "store"]
    /\ UNCHANGED <<skills, fi, recommendations, degraded>>
    /\ FetchFrame

\* recommendations[skill] = skill_recs; time.sleep(1); next skill
Store(r) ==
    /\ pc[r] = "store"
    /\ recommendations' = [recommendations EXCEPT
          ![r] = Assign(@, skills_to_search(skills[r])[fi[r]], skill_recs[r])]
    /\ fi' = [fi EXCEPT ![r] = @ + 1]
    /\ pc' = [pc EXCEPT ![r] = "duckduckgo"]
    /\ outbound' = [outbound EXCEPT ![r] = <<>>]
    /\ degraded' = [degraded EXCEPT ![r] =
          LET skill == skills_to_search(skills[r])[fi[r]]
              all_failed == \A i \in DOMAIN outbound[r] : outbound[r][i].status \in Failures
              first_time == skill \notin DOMAIN recommendations[r]
          IN  IF all_failed /\ (first_time \/ skill \in @)
              THEN @ \cup {skill} ELSE @ \ {skill}]
    /\ UNCHANGED <<skills, skill_recs>>
    /\ FetchFrame

\* the loop is exhausted: return recommendations
FetchReturn(r) ==
    /\ pc[r] = "duckduckgo"
    /\ fi[r] > Len(skills_to_search(skills[r]))
    /\ pc' = [pc EXCEPT ![r] = "report"]
    /\ UNCHANGED fetchVars
    /\ FetchFrame

\* 6. Generate Report, then the success response
GenerateReport(r) ==
    /\ pc[r] = "report"
    /\ \E rendered \in BOOLEAN :
          IF rendered
          THEN /\ reports' = Assign(reports, ReportPath(r), r)
               /\ pc' = [pc EXCEPT ![r] = "responded"]
               /\ response' = [response EXCEPT ![r] = "200"]
               /\ stages' = [stages EXCEPT ![r] = Append(@, "report")]
               /\ UNCHANGED failed
          ELSE /\ Raise(r, "report")
               /\ UNCHANGED reports
    /\ UNCHANGED <<filename, unique_id, resume_data, jd_data, match_results, uploads>>
    /\ UNCHANGED <<normVars, matchVars, fetchVars>>

FetchStep(r) == DuckDuckGo(r) \/ Coursera(r) \/ Store(r) \/ FetchReturn(r)

Analyze(r) ==
    \/ Validate(r)
    \/ SaveFile(r)
    \/ ParseResume(r)
    \/ ParseJd(r)
    \/ MatchSkills(r)
    \/ Recommend(r)
    \/ FetchStep(r)
    \/ GenerateReport(r)

Next == \E r \in Requests : Analyze(r)

Spec == Init /\ [][Next]_vars

(***************************************************************************)
(* One request on its own.  Every provider call returns within its         *)
(* timeout=5 and the loop sleeps one second per skill, so an invocation    *)
(* that entered the fetch loop keeps stepping through it.                  *)
(***************************************************************************)
NextSolo == Analyze("r1")

SpecSolo == Init /\ [][NextSolo]_vars /\ WF_vars(FetchStep("r1"))

(***************************************************************************)
(* fetch_courses_for_skills called directly with any short skill list      *)
(***************************************************************************)
FetchPool == {AWS, Go, Python, SQL}

InitFetch ==
    /\ NormIdle
    /\ MatchIdle
    /\ pc = [r \in Requests |-> IF r = "r1" THEN "duckduckgo" ELSE "idle"]
    /\ \E arg \in SeqsUpTo(FetchPool, MaxSkills) :
          skills = [r \in Requests |-> IF r = "r1" THEN arg ELSE <<>>]
    /\ fi = [r \in Requests |-> IF r = "r1" THEN 1 ELSE 0]
    /\ filename = [r \in Requests |-> ""]
    /\ unique_id = [r \in Requests |-> ""]
    /\ resume_data = [r \in Requests |-> NoData]
    /\ jd_data = [r \in Requests |-> NoData]
    /\ match_results = [r \in Requests |-> NoResult]
    /\ skill_recs = [r \in Requests |-> <<>>]
    /\ recommendations = [r \in Requests |-> <<>>]
    /\ response = [r \in Requests |-> "none"]
    /\ uploads = <<>>
    /\ reports = <<>>
    /\ stages = [r \in Requests |-> <<>>]
    /\ failed = [r \in Requests |-> "none"]
    /\ outbound = [r \in Requests |-> <<>>]
    /\ degraded = [r \in Requests |-> {}]

NextFetch == FetchStep("r1")

SpecFetch == InitFetch /\ [][NextFetch]_vars

(***************************************************************************)
(* Properties                                                              *)
(***************************************************************************)
Range(q) == {q[i] : i \in 1..Len(q)}

Count(q, x) == Cardinality({i \in 1..Len(q) : q[i] = x})

\* the string is the unknown-value sentinel once case and outer blanks are ignored
IsNullLike(x) == lower(strip(x)) = <<110, 117, 108, 108>>

\* a and b differ at most in case and in spacing
SameSkill(a, b) == normalize_skill(a) = normalize_skill(b)

OnResume(x) == \E j \in 1..Len(resume_skills) : SameSkill(resume_skills[j], x)

IsSorted(q) == \A i, j \in 1..Len(q) : i < j => ~str_lt(q[j], q[i])

\* C8: normalize_skill is idempotent, and its result has no upper-case letter,
\* no whitespace at either end and no whitespace other than single spaces
\* between two non-blank characters.
C8_NormalizeIdempotent ==
    /\ npc = "twice" => norm_again = norm_out
    /\ npc \in {"once", "twice"} =>
          /\ \A i \in 1..Len(norm_out) : norm_out[i] \notin 65..90
          /\ norm_out # <<>> => ~isspace(norm_out[1]) /\ ~isspace(norm_out[Len(norm_out)])
          /\ \A i \in 1..Len(norm_out) :
                isspace(norm_out[i]) =>
                    /\ norm_out[i] = 32
                    /\ i + 1 <= Len(norm_out) => ~isspace(norm_out[i + 1])

\* "A\t a" has been normalized twice and came out as "a a" both times
C8_Witness ==
    /\ npc = "twice"
    /\ norm_in = <<65, 9, 32, 97>>
    /\ norm_out = <<97, 32, 97>>
    /\ norm_again = <<97, 32, 97>>

\* C4: score_percentage is matched_count / total_skills_count * 100 rounded to
\* one decimal when total_skills_count > 0 and 0 otherwise, the two counts
\* being the distinct normalized non-null required skills and those of them
\* found on the resume; the score lies within 0..100.
C4_ScoreFormula ==
    mpc = "done" =>
        LET required == {normalize_skill(x) : x \in {y \in Range(jd_skills) : ~IsNullLike(y)}}
            found == {n \in required : \E j \in 1..Len(resume_skills) :
                                          normalize_skill(resume_skills[j]) = n}
            t == Cardinality(required)
            m == Cardinality(found)
            tenths == match_result.score_percentage
            off == tenths * t - 1000 * m
        IN  /\ match_result.total_skills_count = t
            /\ match_result.matched_count = m
            /\ t > 0 => 2 * off <= t /\ -2 * off <= t
            /\ t = 0 => tenths = 0
            /\ tenths \in 0..1000

\* two of three required skills are on the resume: 66.7
C4_Witness ==
    /\ mpc = "done"
    /\ match_result.total_skills_count = 3
    /\ match_result.matched_count = 2
    /\ match_result.score_percentage = 667

\* C5: entries that normalize to "null" never count and never show up in
\* the result, on either side; the result is the one obtained without them,
\* and a required list made only of such entries gives total 0 and score 0.
C5_NullExcluded ==
    mpc = "done" =>
        LET real(q) == SelectSeq(q, LAMBDA x : ~IsNullLike(x))
        IN  /\ \A x \in Range(match_result.matched_skills) : ~IsNullLike(x)
            /\ \A x \in Range(match_result.missing_skills) : ~IsNullLike(x)
            /\ match_result.total_skills_count <= Cardinality(Range(real(jd_skills)))
            /\ match_result.matched_count <= Cardinality(Range(real(resume_skills)))
            /\ match_result = match_skills(real(resume_skills), real(jd_skills))
            /\ real(jd_skills) = <<>> =>
                  /\ match_result.total_skills_count = 0
                  /\ match_result.score_percentage = 0

\* both lists carry a null entry next to a real one
C5_Witness ==
    /\ mpc = "done"
    /\ \E i \in 1..Len(jd_skills) : IsNullLike(jd_skills[i])
    /\ \E j \in 1..Len(resume_skills) : IsNullLike(resume_skills[j])
    /\ match_result.total_skills_count > 0
    /\ match_result.matched_count > 0

\* C6: a required string is in matched_skills exactly when it is non-null
\* and some resume skill has the same normalized form, in missing_skills
\* exactly when it is non-null and no resume skill has; each occurrence is
\* kept, so a non-null required entry is in exactly one of the two lists.
C6_MatchedOrMissing ==
    mpc = "done" =>
        \A x \in SkillPool \cup Range(match_result.matched_skills)
                           \cup Range(match_result.missing_skills) :
            /\ Count(match_result.matched_skills, x) =
                  IF ~IsNullLike(x) /\ OnResume(x) THEN Count(jd_skills, x) ELSE 0
            /\ Count(match_result.missing_skills, x) =
                  IF ~IsNullLike(x) /\ ~OnResume(x) THEN Count(jd_skills, x) ELSE 0

\* "AWS" and "  aws  " are both required and both matched by one resume skill
\* written differently from at least one of them, while another skill is missing
C6_Witness ==
    /\ mpc = "done"
    /\ \E i, j \in 1..Len(match_result.matched_skills) :
          /\ match_result.matched_skills[i] # match_result.matched_skills[j]
          /\ SameSkill(match_result.matched_skills[i], match_result.matched_skills[j])
          /\ match_result.matched_skills[i] \notin Range(resume_skills)
    /\ match_result.missing_skills # <<>>

\* C7: both lists are in ascending order, and calling match_skills again with
\* either input in another order returns the same result.
C7_SortedAndOrderFree ==
    /\ [](mpc = "done" => /\ IsSorted(match_result.matched_skills)
                          /\ IsSorted(match_result.missing_skills))
    /\ [][mpc = "done" => match_result' = match_result]_vars

\* the required skills were given in descending order and two are missing
C7_Witness ==
    /\ mpc = "done"
    /\ Len(jd_skills) >= 2
    /\ str_lt(jd_skills[2], jd_skills[1])
    /\ ~SameSkill(jd_skills[2], jd_skills[1])
    /\ Range(jd_skills) \subseteq Range(match_result.missing_skills)

(***************************************************************************)
(* Properties of the fetch loop and of the handler                         *)
(***************************************************************************)
FromProvider(recs, p) == {i \in 1..Len(recs) : recs[i].source = p}

BackupAsked(r) == \E i \in 1..Len(outbound[r]) : outbound[r][i].provider = "coursera"

InFetch(r) == pc[r] \in {"duckduckgo", "coursera", "store"}

\* C1: for each skill the loop has finished querying, two DuckDuckGo results
\* mean Coursera was not asked for it; no DuckDuckGo result means Coursera
\* was asked and added at most one entry.
C1_FallbackChain ==
    \A r \in Requests :
        pc[r] = "store" =>
            LET primary == Cardinality(FromProvider(skill_recs[r], "duckduckgo"))
                backup  == Cardinality(FromProvider(skill_recs[r], "coursera"))
            IN  /\ primary = 2 => ~BackupAsked(r)
                /\ primary = 0 => BackupAsked(r) /\ backup <= 1

\* an earlier skill got two DuckDuckGo results and nothing from Coursera; the
\* current one got nothing from DuckDuckGo and one entry from Coursera
C1_Witness ==
    \E r \in Requests :
        /\ pc[r] = "store"
        /\ FromProvider(skill_recs[r], "duckduckgo") = {}
        /\ BackupAsked(r)
        /\ Cardinality(FromProvider(skill_recs[r], "coursera")) = 1
        /\ \E k \in DOMAIN recommendations[r] :
              /\ Len(recommendations[r][k]) = 2
              /\ FromProvider(recommendations[r][k], "coursera") = {}

C3_KeysAreFirstThree ==
    \A r \in Requests :
        (pc[r] = "report" /\ skills[r] # <<>>) =>
            LET n == Len(skills[r])
                m == IF n < 3 THEN n ELSE 3
            IN  DOMAIN recommendations[r] = {skills[r][i] : i \in 1..m}

\* four skills were passed, the fourth is no key, and a key has an empty list
C3_Witness ==
    \E r \in Requests :
        /\ pc[r] = "report"
        /\ Len(skills[r]) >= 4
        /\ skills[r][4] \notin DOMAIN recommendations[r]
        /\ Cardinality(DOMAIN recommendations[r]) = 3
        /\ \E k \in DOMAIN recommendations[r] : recommendations[r][k] = <<>>

\* C11: in every list of the mapping, and in the list being built, at most two
\* entries come from DuckDuckGo and at most one from Coursera, no Coursera
\* entry stands before a DuckDuckGo entry, and the list has at most two
\* entries, whatever the providers answered.
C11_PerProviderCaps ==
    \A r \in Requests :
        LET capped(recs) ==
                /\ Cardinality(FromProvider(recs, "duckduckgo")) <= 2
                /\ Cardinality(FromProvider(recs, "coursera")) <= 1
                /\ \A i \in FromProvider(recs, "coursera") :
                      \A j \in FromProvider(recs, "duckduckgo") : j < i
                /\ Len(recs) <= 2
        IN  /\ \A k \in DOMAIN recommendations[r] : capped(recommendations[r][k])
            /\ pc[r] = "store" => capped(skill_recs[r])

\* the fetch has returned; one skill has a DuckDuckGo entry followed by a
\* Coursera entry, another skill has two DuckDuckGo entries
C11_Witness ==
    \E r \in Requests :
        /\ pc[r] = "report"
        /\ \E k \in DOMAIN recommendations[r] :
              /\ Len(recommendations[r][k]) = 2
              /\ recommendations[r][k][1].source = "duckduckgo"
              /\ recommendations[r][k][2].source = "coursera"
        /\ \E k \in DOMAIN recommendations[r] :
              FromProvider(recommendations[r][k], "duckduckgo") = {1, 2}

IsPrefix(p, q) == Len(p) <= Len(q) /\ \A i \in 1..Len(p) : p[i] = q[i]

WithFetch ==
    <<"validate", "save", "parse_resume", "parse_jd", "match_skills", "fetch", "report">>

WithoutFetch ==
    <<"validate", "save", "parse_resume", "parse_jd", "match_skills", "report">>

\* C9: the stages of one invocation are entered in the fixed order, matching
\* only with both extraction results at hand, the fetch only after matching
\* and exactly when a skill is missing, the report last before the success
\* response; once a stage has failed the invocation enters no further stage.
C9_StageOrder ==
    /\ [](\A r \in Requests :
            /\ IsPrefix(stages[r], WithFetch) \/ IsPrefix(stages[r], WithoutFetch)
            /\ "match_skills" \in Range(stages[r]) =>
                  resume_data[r].parsed /\ jd_data[r].parsed
            /\ "fetch" \in Range(stages[r]) => "match_skills" \in Range(stages[r])
            /\ (pc[r] = "report" \/ "report" \in Range(stages[r])) =>
                  ("fetch" \in Range(stages[r]) <=> match_results[r].missing_skills # <<>>)
            /\ response[r] = "200" =>
                  /\ stages[r] # <<>>
                  /\ stages[r][Len(stages[r])] = "report"
                  /\ ReportPath(r) \in DOMAIN reports
            /\ failed[r] # "none" =>
                  /\ response[r] = "500"
                  /\ stages[r][Len(stages[r])] = failed[r])
    /\ [][\A r \in Requests :
            response[r] # "none" =>
                /\ stages'[r] = stages[r]
                /\ pc'[r] = pc[r]
                /\ response'[r] = response[r]]_vars

\* one request went through every stage including the fetch, another was
\* stopped by a failed extraction
C9_Witness ==
    \E r, q \in Requests :
        /\ response[r] = "200"
        /\ stages[r] = WithFetch
        /\ failed[q] = "parse_jd"

\* C10: two requests never share an upload path or a report path.
C10_UniquePaths ==
    \A r, q \in Requests :
        (r # q /\ "save" \in Range(stages[r]) /\ "save" \in Range(stages[q])
               /\ failed[r] # "save" /\ failed[q] # "save") =>
            /\ SavePath(r) # SavePath(q)
            /\ ReportPath(r) # ReportPath(q)

====
